---- MODULE Spec2Model ----
(***************************************************************************)
(* Model of pihole-control.py: a push button toggles Pi-hole, a LED shows  *)
(* its state.  Three activities share the Event `buttonEvent`, the global  *)
(* `shutdown`, the Pi-hole service (the oracle) and the status LED:        *)
(*   - the GPIO callback (pushButtonGPIOCallback),                         *)
(*   - the worker thread (pushButtonHandler / togglePiHoleStatus),         *)
(*   - the main thread (start-up, piHoleStatusMonitorTask, finally block). *)
(* Each action is one statement (or one external call) of the script, so   *)
(* that every interleaving of the threads at statement level is covered.   *)
(***************************************************************************)
EXTENDS Naturals, Sequences, FiniteSets, TLC

\* ---- bounds of the model ----
MaxNotify == 2      \* number of button edges delivered
MaxExternal == 2    \* number of state changes made outside this process
MaxTicks == 5       \* poll ticks of the monitor task when no button is pressed
MaxRaceTicks == 1   \* poll ticks of the monitor task racing with the worker

\* ---- outcomes of the external calls ----
\* `pihole status`: prints the state, prints something else, or cannot be run
QueryOutcomes == {"ok", "garbled", "raise"}
\* `pihole enable|disable`: applies, exits non-zero without applying, cannot be run
CmdOutcomes == {"ok", "fail", "raise"}

VARIABLES
    buttonEvent,   \* threading.Event flag (line 32)
    shutdown,      \* global shutdown (line 33)
    oracle,        \* Pi-hole blocking state: TRUE = enabled
    led,           \* level of PIN_STATUS_LED: "unset", "off", "on"
    eventDetect,   \* edge detection registered on PIN_PUSH_BUTTON
    gpioReleased,  \* GPIO.cleanup() has run
    mpc,           \* position of the main thread
    wpc,           \* position of the worker thread
    lastState,     \* local of piHoleStatusMonitorTask
    state,         \* local of piHoleStatusMonitorTask
    wEnabled,      \* result of isPiHoleEnabled() inside togglePiHoleStatus
    \* ---- history (observation only, never read by the program) ----
    nNotify,       \* callbacks delivered so far
    nExternal,     \* external changes so far
    batch,         \* callbacks since the flag was last cleared
    served,        \* value of batch when the worker last woke for a press
    batchWakes,    \* button-pressed wakes since the flag was last cleared
    batchToggles,  \* togglePiHoleStatus calls since the flag was last cleared
    oracleAtNotify,\* oracle state at the latest callback
    oracleAtRead,  \* oracle state when the worker queried it
    wQ,            \* outcome of the worker's query in this cycle
    wC,            \* outcome of the worker's command in this cycle
    wCmd,          \* command issued in this cycle: "none", "enable", "disable"
    wWrote,        \* level written to the LED by this toggle, "none" if unwritten
    cmdsAfterShutdown, \* commands started after shutdown = True and buttonEvent.set()
    wokeAfterFlag, \* value of shutdown when the running toggle passed its check
    rtN,           \* consecutive undisturbed successful toggles (0..2)
    rtDirty,       \* the running toggle saw an external change or a failure
    rtBase,        \* oracle state before the first of them
    reads,         \* states read by the monitor task: reads[1] is the initial read
    pQ,            \* outcome of the monitor task's query in this tick
    pWritten,      \* level written to the LED in this tick, "none" if unwritten
    pLogged,       \* a transition was logged in this tick
    lastStateBefore,\* lastState at the start of this tick
    nLogs,         \* transitions logged by the monitor task
    nPollWrites,   \* LED writes made by the monitor task
    pDisturbed,    \* since this tick's query: external change, worker command or LED write
    subscribeFailed, \* GPIO.add_event_detect raised
    cycleCmds      \* pihole enable/disable calls since the flag was last cleared

progVars == <<buttonEvent, shutdown, oracle, led, eventDetect, gpioReleased,
              mpc, wpc, lastState, state, wEnabled>>
latchHist == <<batch, served, batchWakes, batchToggles, oracleAtNotify>>
toggleHist == <<oracleAtRead, wQ, wC, wCmd, wWrote,
                cmdsAfterShutdown, wokeAfterFlag, rtN, rtDirty, rtBase>>
pollHist == <<reads, pQ, pWritten, pLogged, lastStateBefore, nLogs, nPollWrites>>
auxHist == <<pDisturbed, subscribeFailed, cycleCmds>>
vars == <<progVars, nNotify, nExternal, latchHist, toggleHist, pollHist, auxHist>>

\* ---- positions ----
PollerPcs == {"init_query", "sleep", "query", "log", "write", "update"}
FinallyPcs == {"fin_flag", "fin_set", "fin_remove", "fin_cleanup"}
Terminated == {"done", "crashed"}
TogglingPcs == {"query", "cmd", "led", "clear"}

\* the interpreter exits once the main thread and the non-daemon worker ended
ProcessOver == mpc = "exited" /\ wpc \in Terminated \cup {"notstarted"}

\* ---- pure helpers ----
\* stdout of `pihole status`
PiholeStatusOutput(enabled, outcome) ==
    IF outcome = "ok" THEN (IF enabled THEN "Enabled" ELSE "Disabled") ELSE ""

\* isPiHoleEnabled: "Enabled" in p.communicate()[0]
isPiHoleEnabled(output) == output = "Enabled"

togglePiHoleStatus_Swapped(enabled) == IF enabled THEN "enable" ELSE "disable"

togglePiHoleStatus_AlwaysDisable(enabled) == "disable"

\* togglePiHoleStatus: which command is run for the state read
togglePiHoleStatus(enabled) == IF enabled THEN "disable" ELSE "enable"

\* effect of `pihole enable|disable` on the service
ApplyCommand(cmd, outcome, cur) == IF outcome = "ok" THEN cmd = "enable" ELSE cur

setStatusEnabled_LedOn == "on"

\* setStatusEnabled / setStatusDisabled: GPIO.output(PIN_STATUS_LED, False|True)
setStatusEnabled == "off"
setStatusDisabled == "on"

\* LED level written after a command
LevelAfter(cmd) == IF cmd = "enable" THEN setStatusEnabled ELSE setStatusDisabled

\* LED level written by the monitor task for a state
LevelFor(st) == IF st THEN setStatusEnabled ELSE setStatusDisabled

EventSet_Toggle(flag) == ~flag

\* threading.Event.set
EventSet(flag) == TRUE

EventClear_Noop(flag) == flag

\* threading.Event.clear
EventClear(flag) == FALSE

ShutdownObserved_Never(flag) == FALSE

\* `if shutdown: return` in pushButtonHandler
ShutdownObserved(flag) == flag

\* `if state != lastState` in piHoleStatusMonitorTask
StateChanged(st, last) == st # last

NextLastState_Kept(st, last) == last

\* `lastState = state` at the end of a tick
NextLastState(st, last) == st

\* the tick of the monitor task that is between its query and `lastState = state`
\* is disturbed by a change of the service or a LED write of the worker
Disturb == IF mpc \in {"log", "write", "update"} THEN TRUE ELSE pDisturbed

AfterSubscribe_Continue(ok) == "start"

\* an exception of GPIO.add_event_detect (line 185, outside the try) ends the script
AfterSubscribe(ok) == IF ok THEN "start" ELSE "exited"

AfterCommand_Retry(outcome) ==
    IF outcome = "raise" THEN "crashed" ELSE IF outcome = "fail" THEN "cmd" ELSE "led"

\* subprocess.call returns (whatever the exit code) and the LED is set next;
\* an exception ends the worker thread
AfterCommand(outcome) == IF outcome = "raise" THEN "crashed" ELSE "led"

\* both shutdown steps (shutdown = True, buttonEvent.set()) have run
ShutdownSignalled == shutdown /\ mpc \in {"fin_remove", "fin_cleanup", "exited"}

Init ==
    /\ buttonEvent = FALSE
    /\ shutdown = FALSE
    /\ oracle \in BOOLEAN
    /\ led = "unset"
    /\ eventDetect = FALSE
    /\ gpioReleased = FALSE
    /\ mpc = "subscribe"
    /\ wpc = "notstarted"
    /\ lastState = FALSE
    /\ state = FALSE
    /\ wEnabled = FALSE
    /\ nNotify = 0
    /\ nExternal = 0
    /\ batch = 0
    /\ served = 0
    /\ batchWakes = 0
    /\ batchToggles = 0
    /\ oracleAtNotify = FALSE
    /\ oracleAtRead = FALSE
    /\ wQ = "none"
    /\ wC = "none"
    /\ wCmd = "none"
    /\ wWrote = "none"
    /\ cmdsAfterShutdown = 0
    /\ wokeAfterFlag = FALSE
    /\ rtN = 0
    /\ rtDirty = FALSE
    /\ rtBase = FALSE
    /\ reads = <<>>
    /\ pQ = "none"
    /\ pWritten = "none"
    /\ pLogged = FALSE
    /\ lastStateBefore = FALSE
    /\ nLogs = 0
    /\ nPollWrites = 0
    /\ pDisturbed = FALSE
    /\ subscribeFailed = FALSE
    /\ cycleCmds = 0

\* ---------------- GPIO callback ----------------
\* pushButtonGPIOCallback: buttonEvent.set()
Notify ==
    /\ eventDetect
    /\ ~ProcessOver
    /\ nNotify < MaxNotify
    /\ buttonEvent' = EventSet(buttonEvent)
    /\ nNotify' = nNotify + 1
    /\ batch' = batch + 1
    /\ oracleAtNotify' = oracle
    /\ UNCHANGED <<shutdown, oracle, led, eventDetect, gpioReleased, mpc, wpc,
                   lastState, state, wEnabled>>
    /\ UNCHANGED <<nExternal, served, batchWakes, batchToggles, toggleHist, pollHist>>
    /\ UNCHANGED auxHist

\* ---------------- environment ----------------
\* Pi-hole is switched through another path (web admin gui, pihole tool)
ExternalChange ==
    /\ ~ProcessOver
    /\ nExternal < MaxExternal
    /\ oracle' = ~oracle
    /\ nExternal' = nExternal + 1
    /\ rtN' = 0
    /\ rtDirty' = (wpc \in TogglingPcs)
    /\ rtBase' = FALSE
    /\ UNCHANGED <<buttonEvent, shutdown, led, eventDetect, gpioReleased, mpc, wpc,
                   lastState, state, wEnabled>>
    /\ UNCHANGED <<nNotify, latchHist, pollHist>>
    /\ UNCHANGED <<oracleAtRead, wQ, wC, wCmd, wWrote,
                   cmdsAfterShutdown, wokeAfterFlag>>
    /\ pDisturbed' = Disturb
    /\ UNCHANGED <<subscribeFailed, cycleCmds>>

\* ---------------- worker thread: pushButtonHandler ----------------
\* event.wait(): returns once the flag is set, the flag stays set
WorkerWait ==
    /\ wpc = "wait"
    /\ buttonEvent
    /\ wpc' = "check"
    /\ UNCHANGED <<buttonEvent, shutdown, oracle, led, eventDetect, gpioReleased,
                   mpc, lastState, state, wEnabled>>
    /\ UNCHANGED <<nNotify, nExternal, latchHist, toggleHist, pollHist>>
    /\ UNCHANGED auxHist

\* if shutdown: return; otherwise "Button pressed" and togglePiHoleStatus() is called
WorkerCheck ==
    /\ wpc = "check"
    /\ IF ShutdownObserved(shutdown)
       THEN /\ wpc' = "done"
            /\ UNCHANGED <<served, batchWakes, wokeAfterFlag, rtN, rtDirty, rtBase>>
       ELSE /\ wpc' = "query"
            /\ wokeAfterFlag' = shutdown
            /\ served' = batch
            /\ batchWakes' = batchWakes + 1
            /\ rtN' = IF rtN = 2 THEN 0 ELSE rtN
            /\ rtDirty' = FALSE
            /\ rtBase' = IF rtN \in {0, 2} THEN oracle ELSE rtBase
    /\ UNCHANGED <<buttonEvent, shutdown, oracle, led, eventDetect, gpioReleased,
                   mpc, lastState, state, wEnabled>>
    /\ UNCHANGED <<nNotify, nExternal, batch, batchToggles, oracleAtNotify, pollHist>>
    /\ UNCHANGED <<oracleAtRead, wQ, wC, wCmd, wWrote,
                   cmdsAfterShutdown>>
    /\ UNCHANGED auxHist

\* togglePiHoleStatus: isPiHoleEnabled()
WorkerQuery(outcome) ==
    /\ wpc = "query"
    /\ batchToggles' = batchToggles + 1
    /\ wQ' = outcome
    /\ oracleAtRead' = oracle
    /\ IF outcome = "raise"
       THEN /\ wpc' = "crashed"
            /\ UNCHANGED wEnabled
       ELSE /\ wpc' = "cmd"
            /\ wEnabled' = isPiHoleEnabled(PiholeStatusOutput(oracle, outcome))
    /\ rtN' = IF outcome = "ok" THEN rtN ELSE 0
    /\ rtDirty' = (rtDirty \/ outcome # "ok")
    /\ UNCHANGED <<buttonEvent, shutdown, oracle, led, eventDetect, gpioReleased,
                   mpc, lastState, state>>
    /\ UNCHANGED <<nNotify, nExternal, batch, served, batchWakes, oracleAtNotify, pollHist>>
    /\ UNCHANGED <<wC, wCmd, wWrote, cmdsAfterShutdown, wokeAfterFlag, rtBase>>
    /\ UNCHANGED auxHist

\* enablePiHole / disablePiHole: subprocess.call(['pihole', ...]), return code ignored
WorkerCmd(outcome) ==
    /\ wpc = "cmd"
    /\ wCmd' = togglePiHoleStatus(wEnabled)
    /\ wC' = outcome
    /\ cmdsAfterShutdown' = IF ShutdownSignalled THEN cmdsAfterShutdown + 1
                            ELSE cmdsAfterShutdown
    /\ oracle' = ApplyCommand(wCmd', outcome, oracle)
    /\ wpc' = AfterCommand(outcome)
    /\ rtN' = IF outcome = "ok" /\ ~rtDirty THEN rtN + 1 ELSE 0
    /\ UNCHANGED <<rtDirty, rtBase>>
    /\ UNCHANGED <<buttonEvent, shutdown, led, eventDetect, gpioReleased,
                   mpc, lastState, state, wEnabled>>
    /\ UNCHANGED <<nNotify, nExternal, latchHist, pollHist>>
    /\ UNCHANGED <<oracleAtRead, wQ, wWrote, wokeAfterFlag>>
    /\ pDisturbed' = Disturb
    /\ cycleCmds' = cycleCmds + 1
    /\ UNCHANGED subscribeFailed

\* setStatusEnabled / setStatusDisabled after the command; GPIO.output raises
\* RuntimeError once GPIO.cleanup() has run
WorkerLed ==
    /\ wpc = "led"
    /\ IF gpioReleased
       THEN /\ wpc' = "crashed"
            /\ UNCHANGED <<led, wWrote>>
       ELSE /\ wpc' = "clear"
            /\ led' = LevelAfter(wCmd)
            /\ wWrote' = led'
    /\ UNCHANGED <<buttonEvent, shutdown, oracle, eventDetect, gpioReleased,
                   mpc, lastState, state, wEnabled>>
    /\ UNCHANGED <<nNotify, nExternal, latchHist, pollHist>>
    /\ UNCHANGED <<oracleAtRead, wQ, wC, wCmd,
                   cmdsAfterShutdown, wokeAfterFlag, rtN, rtDirty, rtBase>>
    /\ pDisturbed' = Disturb
    /\ UNCHANGED <<subscribeFailed, cycleCmds>>

\* event.clear() and back to event.wait()
WorkerClear ==
    /\ wpc = "clear"
    /\ buttonEvent' = EventClear(buttonEvent)
    /\ wpc' = "wait"
    /\ batch' = 0
    /\ served' = 0
    /\ batchWakes' = 0
    /\ batchToggles' = 0
    /\ wQ' = "none"
    /\ wC' = "none"
    /\ wCmd' = "none"
    /\ wWrote' = "none"
    /\ oracleAtRead' = FALSE
    /\ oracleAtNotify' = FALSE
    /\ UNCHANGED <<shutdown, oracle, led, eventDetect, gpioReleased,
                   mpc, lastState, state, wEnabled>>
    /\ UNCHANGED <<nNotify, nExternal, pollHist>>
    /\ UNCHANGED <<cmdsAfterShutdown, wokeAfterFlag, rtN, rtDirty, rtBase>>
    /\ cycleCmds' = 0
    /\ UNCHANGED <<pDisturbed, subscribeFailed>>

\* ---------------- main thread: start-up ----------------
\* GPIO.add_event_detect(...): raises RuntimeError when the edge cannot be registered
MainSubscribe(ok) ==
    /\ mpc = "subscribe"
    /\ eventDetect' = ok
    /\ mpc' = AfterSubscribe(ok)
    /\ subscribeFailed' = ~ok
    /\ UNCHANGED <<pDisturbed, cycleCmds>>
    /\ UNCHANGED <<buttonEvent, shutdown, oracle, led, gpioReleased, wpc,
                   lastState, state, wEnabled>>
    /\ UNCHANGED <<nNotify, nExternal, latchHist, toggleHist, pollHist>>

\* buttonHandlerThread.start()
MainStartThread ==
    /\ mpc = "start"
    /\ wpc' = "wait"
    /\ mpc' = "init_query"
    /\ UNCHANGED <<buttonEvent, shutdown, oracle, led, eventDetect, gpioReleased,
                   lastState, state, wEnabled>>
    /\ UNCHANGED <<nNotify, nExternal, latchHist, toggleHist, pollHist>>
    /\ UNCHANGED auxHist

\* ---------------- main thread: piHoleStatusMonitorTask ----------------
\* lastState = isPiHoleEnabled()
PollerInit(outcome) ==
    /\ mpc = "init_query"
    /\ IF outcome = "raise"
       THEN /\ mpc' = "fin_flag"
            /\ UNCHANGED <<lastState, reads>>
       ELSE /\ mpc' = "sleep"
            /\ lastState' = isPiHoleEnabled(PiholeStatusOutput(oracle, outcome))
            /\ reads' = <<lastState'>>
    /\ UNCHANGED <<buttonEvent, shutdown, oracle, led, eventDetect, gpioReleased,
                   wpc, state, wEnabled>>
    /\ UNCHANGED <<nNotify, nExternal, latchHist, toggleHist>>
    /\ UNCHANGED <<pQ, pWritten, pLogged, lastStateBefore, nLogs, nPollWrites>>
    /\ UNCHANGED auxHist

\* time.sleep(PIHOLE_POLLING_INTERVAL) returns
PollerSleep(maxTicks) ==
    /\ mpc = "sleep"
    /\ Len(reads) < maxTicks + 1
    /\ mpc' = "query"
    /\ pQ' = "none"
    /\ pWritten' = "none"
    /\ pLogged' = FALSE
    /\ lastStateBefore' = lastState
    /\ UNCHANGED <<buttonEvent, shutdown, oracle, led, eventDetect, gpioReleased,
                   wpc, lastState, state, wEnabled>>
    /\ UNCHANGED <<nNotify, nExternal, latchHist, toggleHist>>
    /\ UNCHANGED <<reads, nLogs, nPollWrites>>
    /\ UNCHANGED auxHist

\* state = isPiHoleEnabled(); an exception leaves the loop for the finally block
PollerQuery(outcome) ==
    /\ mpc = "query"
    /\ pQ' = outcome
    /\ IF outcome = "raise"
       THEN /\ mpc' = "fin_flag"
            /\ UNCHANGED <<state, reads>>
       ELSE /\ mpc' = "log"
            /\ state' = isPiHoleEnabled(PiholeStatusOutput(oracle, outcome))
            /\ reads' = Append(reads, state')
    /\ UNCHANGED <<buttonEvent, shutdown, oracle, led, eventDetect, gpioReleased,
                   wpc, lastState, wEnabled>>
    /\ UNCHANGED <<nNotify, nExternal, latchHist, toggleHist>>
    /\ UNCHANGED <<pWritten, pLogged, lastStateBefore, nLogs, nPollWrites>>
    /\ pDisturbed' = FALSE
    /\ UNCHANGED <<subscribeFailed, cycleCmds>>

\* if state != lastState: logger.info("Pi-hole blocking state changed to: ...")
PollerLog ==
    /\ mpc = "log"
    /\ mpc' = "write"
    /\ pLogged' = StateChanged(state, lastState)
    /\ nLogs' = IF StateChanged(state, lastState) THEN nLogs + 1 ELSE nLogs
    /\ UNCHANGED <<buttonEvent, shutdown, oracle, led, eventDetect, gpioReleased,
                   wpc, lastState, state, wEnabled>>
    /\ UNCHANGED <<nNotify, nExternal, latchHist, toggleHist>>
    /\ UNCHANGED <<reads, pQ, pWritten, lastStateBefore, nPollWrites>>
    /\ UNCHANGED auxHist

PollerWrite_ViaEnablePiHole ==
    /\ mpc = "write"
    /\ mpc' = "update"
    /\ oracle' = state
    /\ led' = LevelFor(state)
    /\ pWritten' = led'
    /\ nPollWrites' = nPollWrites + 1
    /\ UNCHANGED <<buttonEvent, shutdown, eventDetect, gpioReleased,
                   wpc, lastState, state, wEnabled>>
    /\ UNCHANGED <<nNotify, nExternal, latchHist, toggleHist>>
    /\ UNCHANGED <<reads, pQ, pLogged, lastStateBefore, nLogs>>
    /\ UNCHANGED auxHist

\* if state: setStatusEnabled() else: setStatusDisabled()
PollerWrite ==
    /\ mpc = "write"
    /\ mpc' = "update"
    /\ led' = LevelFor(state)
    /\ pWritten' = led'
    /\ nPollWrites' = nPollWrites + 1
    /\ UNCHANGED <<buttonEvent, shutdown, oracle, eventDetect, gpioReleased,
                   wpc, lastState, state, wEnabled>>
    /\ UNCHANGED <<nNotify, nExternal, latchHist, toggleHist>>
    /\ UNCHANGED <<reads, pQ, pLogged, lastStateBefore, nLogs>>
    /\ UNCHANGED auxHist

\* lastState = state
PollerUpdate ==
    /\ mpc = "update"
    /\ mpc' = "sleep"
    /\ lastState' = NextLastState(state, lastState)
    /\ UNCHANGED <<buttonEvent, shutdown, oracle, led, eventDetect, gpioReleased,
                   wpc, state, wEnabled>>
    /\ UNCHANGED <<nNotify, nExternal, latchHist, toggleHist, pollHist>>
    /\ pDisturbed' = FALSE
    /\ UNCHANGED <<subscribeFailed, cycleCmds>>

\* KeyboardInterrupt (ctrl+C) in the main thread while the monitor task runs
Interrupt ==
    /\ mpc \in PollerPcs
    /\ mpc' = "fin_flag"
    /\ UNCHANGED <<buttonEvent, shutdown, oracle, led, eventDetect, gpioReleased,
                   wpc, lastState, state, wEnabled>>
    /\ UNCHANGED <<nNotify, nExternal, latchHist, toggleHist, pollHist>>
    /\ pDisturbed' = FALSE
    /\ UNCHANGED <<subscribeFailed, cycleCmds>>

\* ---------------- main thread: finally block ----------------
FinFlag_LocalAssignment ==
    /\ mpc = "fin_flag"
    /\ mpc' = "fin_set"
    /\ UNCHANGED <<buttonEvent, shutdown, oracle, led, eventDetect, gpioReleased,
                   wpc, lastState, state, wEnabled>>
    /\ UNCHANGED <<nNotify, nExternal, latchHist, toggleHist, pollHist>>
    /\ UNCHANGED auxHist

\* shutdown = True
FinFlag ==
    /\ mpc = "fin_flag"
    /\ shutdown' = TRUE
    /\ mpc' = "fin_set"
    /\ UNCHANGED <<buttonEvent, oracle, led, eventDetect, gpioReleased,
                   wpc, lastState, state, wEnabled>>
    /\ UNCHANGED <<nNotify, nExternal, latchHist, toggleHist, pollHist>>
    /\ UNCHANGED auxHist

\* buttonEvent.set()
FinSet ==
    /\ mpc = "fin_set"
    /\ buttonEvent' = EventSet(buttonEvent)
    /\ mpc' = "fin_remove"
    /\ UNCHANGED <<shutdown, oracle, led, eventDetect, gpioReleased,
                   wpc, lastState, state, wEnabled>>
    /\ UNCHANGED <<nNotify, nExternal, latchHist, toggleHist, pollHist>>
    /\ UNCHANGED auxHist

\* GPIO.remove_event_detect(PIN_PUSH_BUTTON); an exception here skips GPIO.cleanup()
FinRemove(ok) ==
    /\ mpc = "fin_remove"
    /\ IF ok THEN eventDetect' = FALSE /\ mpc' = "fin_cleanup"
             ELSE eventDetect' = eventDetect /\ mpc' = "exited"
    /\ UNCHANGED <<buttonEvent, shutdown, oracle, led, gpioReleased,
                   wpc, lastState, state, wEnabled>>
    /\ UNCHANGED <<nNotify, nExternal, latchHist, toggleHist, pollHist>>
    /\ UNCHANGED auxHist

\* GPIO.cleanup()
FinCleanup ==
    /\ mpc = "fin_cleanup"
    /\ gpioReleased' = TRUE
    /\ mpc' = "exited"
    /\ UNCHANGED <<buttonEvent, shutdown, oracle, led, eventDetect,
                   wpc, lastState, state, wEnabled>>
    /\ UNCHANGED <<nNotify, nExternal, latchHist, toggleHist, pollHist>>
    /\ UNCHANGED auxHist

Worker ==
    \/ WorkerWait
    \/ WorkerCheck
    \/ \E o \in QueryOutcomes : WorkerQuery(o)
    \/ \E o \in CmdOutcomes : WorkerCmd(o)
    \/ WorkerLed
    \/ WorkerClear

Poller(maxTicks) ==
    \/ \E o \in QueryOutcomes : PollerInit(o)
    \/ PollerSleep(maxTicks)
    \/ \E o \in QueryOutcomes : PollerQuery(o)
    \/ PollerLog
    \/ PollerWrite
    \/ PollerUpdate

Finally ==
    \/ FinFlag
    \/ FinSet
    \/ \E ok \in BOOLEAN : FinRemove(ok)
    \/ FinCleanup

Next ==
    \/ Notify
    \/ ExternalChange
    \/ \E ok \in BOOLEAN : MainSubscribe(ok)
    \/ MainStartThread
    \/ Worker
    \/ Poller(MaxRaceTicks)
    \/ Interrupt
    \/ Finally

Spec == Init /\ [][Next]_vars

\* The program while the button is never pressed: the worker only waits for
\* the shutdown wake, the monitor task runs for more ticks.
PollNext ==
    \/ ExternalChange
    \/ \E ok \in BOOLEAN : MainSubscribe(ok)
    \/ MainStartThread
    \/ WorkerWait
    \/ WorkerCheck
    \/ Poller(MaxTicks)
    \/ Interrupt
    \/ Finally

PollSpec == Init /\ [][PollNext]_vars

\* ---------------------------------------------------------------------
\* Properties
\* ---------------------------------------------------------------------
Opposite(enabled) == IF enabled THEN "disable" ELSE "enable"

\* number of positions of a sequence of reads that differ from the one before
Transitions(seq) == Cardinality({i \in 2..Len(seq) : seq[i] # seq[i - 1]})

\* C1: however many callbacks arrive before the worker wakes, they are served
\* by exactly one button-pressed wake and exactly one togglePiHoleStatus call:
\* between two clears of the flag there is at most one wake, it is a wake for
\* at least one callback, and one toggle is run for it.
C1_Coalescing ==
    /\ buttonEvent \in BOOLEAN
    /\ batchWakes <= 1
    /\ batchToggles <= batchWakes
    /\ (batchWakes = 1 => served >= 1)
    /\ (wpc \in {"cmd", "led", "clear"} => batchWakes = 1 /\ batchToggles = 1)

C1_Witness ==
    /\ wpc = "clear"
    /\ served >= 2
    /\ batchWakes = 1
    /\ batchToggles = 1

\* C2: once shutdown = True and buttonEvent.set() have both run, the worker
\* thread never ends up blocked in event.wait() for good: when the main thread
\* has finished and no callback can come any more, a worker that is in
\* event.wait() finds the flag set (and so goes on to see shutdown and return).
C2_NeverBlockedForever ==
    (ShutdownSignalled /\ mpc = "exited" /\ ~eventDetect /\ wpc = "wait") => buttonEvent

\* C3 (as stated): no pihole enable/disable is started once shutdown = True and
\* buttonEvent.set() have both run.
C3_NoCommandAfterShutdown == cmdsAfterShutdown = 0

\* C3 (amended): no toggle is begun by a wake that finds shutdown set, so
\* after both shutdown steps only the toggle that had already passed its
\* shutdown check may still start its command: at most one command starts
\* after them.
C3_OnlyInFlightToggle ==
    /\ cmdsAfterShutdown <= 1
    /\ ~wokeAfterFlag

C3_Witness == ShutdownSignalled /\ wpc = "done" /\ cmdsAfterShutdown = 1

\* C4: the command of a toggle is the opposite of the state the worker read
\* after it woke, and a successful read is the state the service had when it
\* was read, whatever the state was when the button was pressed.
C4_FreshStateToggle ==
    /\ (wCmd # "none" => wCmd = Opposite(wEnabled))
    /\ (wCmd # "none" /\ wQ = "ok" => wCmd = Opposite(oracleAtRead))
    /\ (wpc \in {"cmd", "led", "clear"} /\ wQ = "ok" => wEnabled = oracleAtRead)

C4_Witness ==
    /\ wpc = "led"
    /\ wQ = "ok"
    /\ batch = served
    /\ oracleAtNotify # oracleAtRead
    /\ wCmd = Opposite(oracleAtRead)

\* C5: two consecutive successful toggles with no external change and no
\* failed call in between leave the service in the state it had before them.
C5_RoundTrip == rtN = 2 => oracle = rtBase

C5_Witness == rtN = 2 /\ wpc = "clear" /\ nExternal = 0

\* C6: at every tick the monitor task writes the LED once, with the level of
\* the state it just read, and logs a transition exactly when that state
\* differs from the state read at the tick before (the initial read for the
\* first tick).
C6_PollerBookkeeping ==
    /\ (mpc = "sleep" =>
           /\ nPollWrites = Len(reads) - 1
           /\ nLogs = Transitions(reads)
           /\ lastState = reads[Len(reads)])
    /\ (mpc = "write" =>
           /\ pLogged = (reads[Len(reads)] # reads[Len(reads) - 1])
           /\ pWritten = "none"
           /\ nPollWrites = Len(reads) - 2)
    /\ (mpc = "update" =>
           /\ pWritten = LevelFor(reads[Len(reads)])
           /\ nPollWrites = Len(reads) - 1)

C6_Witness ==
    /\ mpc = "sleep"
    /\ reads = <<TRUE, TRUE, TRUE, FALSE, FALSE, TRUE>>
    /\ nLogs = 2
    /\ nPollWrites = 5

\* C7: a pihole enable/disable that fails leaves the LED unwritten by that
\* toggle and the worker alive, on its way back to event.wait().
C7_CommandFailureHandled ==
    wC \in {"fail", "raise"} =>
        /\ wWrote = "none"
        /\ wpc \notin Terminated

\* C8: when the worker's pihole status query fails, no enable/disable command
\* is issued and no LED level is written for that press, and the worker goes
\* back to event.wait().
C8_QueryFailureSkipsToggle ==
    wQ \in {"garbled", "raise"} =>
        /\ wCmd = "none"
        /\ wWrote = "none"
        /\ wpc \notin Terminated

\* C9: when the monitor task's query fails at a tick, the tick writes no LED
\* level, logs nothing, keeps lastState, and the loop goes on: no shutdown.
C9_PollerQueryFailureSkipsTick ==
    pQ \in {"garbled", "raise"} =>
        /\ pWritten = "none"
        /\ ~pLogged
        /\ lastState = lastStateBefore
        /\ mpc \in PollerPcs
        /\ ~shutdown

\* C10: when GPIO.remove_event_detect has run, and when GPIO.cleanup has run,
\* the worker thread has already terminated.
C10_WorkerTerminatedBeforeRelease ==
    (mpc = "fin_cleanup" \/ gpioReleased) => wpc \in Terminated

\* C11: a callback that arrives after the worker woke (while it queries,
\* commands or writes the LED) stays pending: when the worker goes back to
\* event.wait() the flag is still set, so a further wake follows.
C11_LatePressStaysPending ==
    [][(~shutdown /\ wpc \in TogglingPcs /\ batch > served /\ wpc' = "wait")
          => buttonEvent']_vars

UnsubscribeFailed == mpc = "exited" /\ shutdown /\ eventDetect

\* C14: when GPIO.remove_event_detect fails during shutdown, GPIO.cleanup is
\* still performed.
C14_ReleaseDespiteUnsubscribeFailure == UnsubscribeFailed => gpioReleased

\* C13: a race between the worker and the monitor task over the LED is
\* repaired by the monitor task: right after the LED write of a tick during
\* which the service did not change and the worker issued no command and
\* wrote no LED level, the LED shows the state of the service.
C13_SelfCorrectingIndicator ==
    (mpc = "update" /\ ~pDisturbed) => led = LevelFor(oracle)

\* C15: when GPIO.add_event_detect fails, the script ends there: the worker
\* thread is never started, the monitor task never runs, and no pihole query
\* or command is made and no LED level is written.
C15_SubscribeFailureIsFatal ==
    subscribeFailed =>
        /\ mpc = "exited"
        /\ wpc = "notstarted"
        /\ ~eventDetect
        /\ reads = <<>>
        /\ pQ = "none"
        /\ wQ = "none"
        /\ wCmd = "none"
        /\ cycleCmds = 0
        /\ batchToggles = 0
        /\ led = "unset"

C15_Witness == subscribeFailed /\ mpc = "exited" /\ ~shutdown

\* C17: at most one pihole enable/disable per button-pressed wake: between two
\* returns to event.wait() the worker issues at most one command, only after
\* a wake, and a command that failed is not issued again.
C17_OneCommandPerWake ==
    /\ cycleCmds <= 1
    /\ cycleCmds <= batchWakes
    /\ (wC = "fail" => cycleCmds = 1)
    /\ (cycleCmds = 1 => wpc \in {"led", "clear", "crashed"})

C17_Witness ==
    /\ wC = "fail"
    /\ wpc = "clear"
    /\ cycleCmds = 1
    /\ batchWakes = 1
    /\ nNotify = 2

\* C16: only the worker issues pihole enable/disable: every change of the
\* service's state is a command of the worker or an external change, and no
\* step of the main thread and no callback changes it.
C16_SingleCommander ==
    [][/\ (oracle' # oracle =>
              \/ (wpc = "cmd" /\ cycleCmds' = cycleCmds + 1)
              \/ nExternal' = nExternal + 1)
       /\ ((mpc' # mpc \/ nNotify' # nNotify) => oracle' = oracle)]_vars

C16_Witness ==
    /\ nPollWrites >= 1
    /\ nNotify >= 1
    /\ nExternal >= 1
    /\ wC = "ok"
    /\ wpc = "clear"

\* C18: a callback sets the flag and does nothing else: shutdown, the service,
\* the LED, the GPIO registration and the locals and positions of both threads
\* are unchanged, and with the flag already set nothing of the program changes.
C18_NotifyOnlySetsFlag ==
    [][nNotify' # nNotify =>
          /\ buttonEvent'
          /\ UNCHANGED <<shutdown, oracle, led, eventDetect, gpioReleased,
                         mpc, wpc, lastState, state, wEnabled>>
          /\ (buttonEvent => UNCHANGED progVars)]_vars

C18_Witness == batch >= 2 /\ buttonEvent /\ nNotify = 2

\* C19: shutdown starts False, is set to True once, by the finally block, is
\* never reset, and no other step writes it.
C19_ShutdownMonotonic ==
    /\ ~shutdown
    /\ [][/\ (shutdown => shutdown')
          /\ (shutdown' # shutdown => mpc = "fin_flag" /\ mpc' = "fin_set")
          /\ (mpc = "fin_flag" /\ mpc' # mpc => ~shutdown /\ shutdown')
          /\ (mpc' = "fin_flag" /\ mpc # "fin_flag" => mpc \in PollerPcs /\ ~shutdown)]_vars

C19_Witness == shutdown /\ wpc = "done" /\ mpc = "exited"

\* C20: once GPIO.cleanup() has run, the worker never executes the LED write
\* of a toggle (GPIO.output on the released pin).
C20_NoLedUseAfterRelease ==
    [][gpioReleased => ~(wpc = "led" /\ wpc' # "led")]_vars
====
